---- MODULE Spec2Model ----
(***************************************************************************)
(* recoil-persist (src/src/index.ts): an atom effect that merges the value *)
(* of every observed atom into one JSON object kept under one storage key. *)
(*                                                                         *)
(* The model follows the source: recoilPersist(config)(settings) builds a  *)
(* persistAtom effect; persistAtom reads the snapshot when the trigger is  *)
(* 'get' and registers an async onSet callback that reads the snapshot,    *)
(* updates or deletes the entry of its node and writes the snapshot back.  *)
(* Promises and `await` are modelled by a FIFO microtask queue; a pending  *)
(* getItem of an asynchronous backend settles at an arbitrary later step.  *)
(***************************************************************************)
EXTENDS Integers, Sequences, FiniteSets, TLC

(***************************************************************************)
(* Bounds of the model.                                                    *)
(***************************************************************************)
\* invocations of the function recoilPersist(config) returns
MaxInstances == 2
\* external sets issued on observed atoms
MaxSets == 2
\* attachments of an effect to an atom
MaxAttach == 2

(***************************************************************************)
(* JavaScript values held by atoms, as tuples of strings.                  *)
(***************************************************************************)
NoEntry == <<>>
Undefined == <<"undefined">>
NaNValue == <<"NaN">>
NullValue == <<"null">>
EmptyObject == <<"object">>
\* an instance of recoil's DefaultValue class (the reset-to-default sentinel)
DefaultValue == <<"DefaultValue">>
Num5 == <<"number", "5">>
StrA == <<"string", "a">>
\* a BigInt: a value JSON.stringify refuses (it throws a TypeError)
BigIntValue == <<"bigint", "1">>

\* node.key of the observed atoms
Cells == {"count", "name"}
\* what an external set may deliver to the onSet callback
SetValues == {Num5, StrA, NaNValue, Undefined, DefaultValue}

(***************************************************************************)
(* The user-supplied settings.serialize and settings.deserialize: one      *)
(* concrete pair, with deserialize not the inverse of serialize, so that   *)
(* d(s(v)), s(v), d(v) and v are four different values.                    *)
(***************************************************************************)
Serialize(v) == <<"string", "ser">> \o v
Deserialize(w) == <<"des">> \o w

(***************************************************************************)
(* JSON.stringify and JSON.parse on values.  A text is the tuple of the    *)
(* value it denotes behind the tag "text".  JSON has no NaN (it is written *)
(* as null), drops a property whose value is undefined, and writes a class *)
(* instance without own enumerable properties (DefaultValue) as {}.        *)
(***************************************************************************)
JsonStringifyValue(v) ==
    IF v = NoEntry \/ v = Undefined THEN NoEntry
    ELSE IF v = NaNValue THEN <<"text">> \o NullValue
    ELSE IF v = DefaultValue THEN <<"text">> \o EmptyObject
    ELSE <<"text">> \o v

JsonParseValue(t) == IF t = NoEntry THEN NoEntry ELSE Tail(t)

NoFields == [k \in Cells |-> NoEntry]

(***************************************************************************)
(* What getItem yields for a key: null or undefined when nothing is        *)
(* stored, else a string: unparseable text, the JSON text of an object     *)
(* (fields: the text of each property), or the JSON text `null` or `5`.    *)
(***************************************************************************)
ItemNull == [kind |-> "null", fields |-> NoFields]
ItemUndefined == [kind |-> "undefined", fields |-> NoFields]
ItemMalformed == [kind |-> "malformed", fields |-> NoFields]
ItemJsonNull == [kind |-> "jsonNull", fields |-> NoFields]
ItemJsonPrimitive == [kind |-> "jsonPrimitive", fields |-> NoFields]
ItemObject(f) == [kind |-> "jsonObject", fields |-> f]
\* no value at all: the getItem call threw, or the Promise it returned was
\* rejected
ItemThrown == [kind |-> "thrown", fields |-> NoFields]
ItemRejected == [kind |-> "rejected", fields |-> NoFields]

(***************************************************************************)
(* A snapshot: the JavaScript value getState / parseState produce.         *)
(***************************************************************************)
SnapObject(f) == [type |-> "object", fields |-> f]
SnapEmpty == SnapObject(NoFields)
SnapNull == [type |-> "null", fields |-> NoFields]
SnapPrimitive == [type |-> "primitive", fields |-> NoFields]
\* no snapshot: getState threw (the exception of getItem passes through it),
\* or the Promise it returned was rejected
Thrown == [type |-> "thrown", fields |-> NoFields]
Rejected == [type |-> "rejected", fields |-> NoFields]

\* state.hasOwnProperty(node.key) on a snapshot that is not null
HasOwnProperty(snap, k) == snap.type = "object" /\ snap.fields[k] # NoEntry

(***************************************************************************)
(* parseState (lines 95-105) on the argument it is given.  A string is     *)
(* parsed, a parse failure is logged and gives {}; undefined gives {}.     *)
(* null (reached only from `toParse.then(parseState)`, when a pending      *)
(* getItem resolves to null) is not undefined: JSON.parse(null) parses the *)
(* text "null" and returns null.                                           *)
(***************************************************************************)
\* parseState whose catch block logs and returns nothing: undefined, on
\* which a property access throws as on null
ParseStateCatchReturnsNothing(raw) ==
    CASE raw.kind = "undefined" -> SnapEmpty
      [] raw.kind = "null" -> SnapNull
      [] raw.kind = "malformed" -> SnapNull
      [] raw.kind = "jsonNull" -> SnapNull
      [] raw.kind = "jsonPrimitive" -> SnapPrimitive
      [] OTHER -> SnapObject([k \in Cells |-> JsonParseValue(raw.fields[k])])

ParseState(raw) ==
    CASE raw.kind = "undefined" -> SnapEmpty
      [] raw.kind = "null" -> SnapNull
      [] raw.kind = "malformed" -> SnapEmpty
      [] raw.kind = "jsonNull" -> SnapNull
      [] raw.kind = "jsonPrimitive" -> SnapPrimitive
      [] OTHER -> SnapObject([k \in Cells |-> JsonParseValue(raw.fields[k])])

(***************************************************************************)
(* getState (lines 80-93) when getItem returned its value immediately.     *)
(***************************************************************************)
GetStateImmediate(toParse) ==
    IF toParse.kind = "thrown" THEN Thrown
    ELSE IF toParse.kind = "null" \/ toParse.kind = "undefined" THEN SnapEmpty
    ELSE ParseState(toParse)

\* what the Promise `toParse.then(parseState)` (line 89) settles with once
\* toParse has settled: a rejection passes through, parseState is not called
ThenParseState(raw) ==
    IF raw.kind = "rejected" THEN Rejected ELSE ParseState(raw)

(***************************************************************************)
(* JSON.stringify(state) of setState (line 111).                           *)
(***************************************************************************)
\* JSON.stringify throws on a BigInt anywhere in the snapshot
JsonStringifyThrows(snap) ==
    snap.type = "object" /\ \E k \in Cells : snap.fields[k] = BigIntValue

JsonStringify(snap) ==
    CASE snap.type = "null" -> ItemJsonNull
      [] snap.type = "primitive" -> ItemJsonPrimitive
      [] OTHER -> ItemObject([k \in Cells |-> JsonStringifyValue(snap.fields[k])])

(***************************************************************************)
(* The body of the onSet callback after `await getState()` (lines 65-74).  *)
(* The module is strict code: reading a property of null, and assigning a  *)
(* property of null or of a primitive, throw a TypeError; awaiting a        *)
(* rejected Promise throws its reason.                                     *)
(***************************************************************************)
OnSetThrows(snap, k, newValue) == snap.type # "object"

IsReset(snap, k, newValue) ==
    /\ newValue # NullValue
    /\ newValue # Undefined
    /\ newValue = DefaultValue
    /\ HasOwnProperty(snap, k)

\* the callback without its reset branch: the sentinel is stored like a value
OnSetStateWithoutDelete(snap, k, newValue, serialize) ==
    SnapObject([snap.fields EXCEPT
        ![k] = IF serialize THEN Serialize(newValue) ELSE newValue])

OnSetState(snap, k, newValue, serialize) ==
    IF IsReset(snap, k, newValue)
    THEN SnapObject([snap.fields EXCEPT ![k] = NoEntry])
    ELSE SnapObject([snap.fields EXCEPT
             ![k] = IF serialize THEN Serialize(newValue) ELSE newValue])

(***************************************************************************)
(* The value pushed by setSelf on initialization (lines 54 and 59).        *)
(***************************************************************************)
\* setSelf given the stored value as it is, the deserializer forgotten
SetSelfValueNotDeserialized(snap, k, deserialize) == snap.fields[k]

SetSelfValue(snap, k, deserialize) ==
    IF deserialize THEN Deserialize(snap.fields[k]) ELSE snap.fields[k]

(***************************************************************************)
(* Storage keys.  A key function is modelled by () => "k-" + counter++;    *)
(* an omitted key leaves `key` undefined (getKey returns config.key as it  *)
(* is), which a Storage turns into the string "undefined".                 *)
(***************************************************************************)
DocumentedDefaultKey == "recoil-persist"
StaticKey == "demo"
KeyFunction(n) == "k-" \o ToString(n)
StorageKeys ==
    {StaticKey, "undefined", DocumentedDefaultKey}
        \cup {KeyFunction(n) : n \in 0..MaxInstances}

\* getKey (lines 19-25); counter is the number of earlier calls of key()
GetKey(cfg, counter) ==
    IF cfg.key = "function" THEN KeyFunction(counter)
    ELSE IF cfg.key = "static" THEN StaticKey
    ELSE "undefined"

Backends == {"localStorage", "injected"}

\* the text {"count":5,"name":"a"}
FilledItem ==
    ItemObject([k \in Cells |->
        IF k = "count" THEN JsonStringifyValue(Num5) ELSE JsonStringifyValue(StrA)])

InitialItems ==
    {ItemNull, ItemUndefined, ItemMalformed, ItemJsonNull, ItemJsonPrimitive,
     ItemObject(NoFields), FilledItem}

VARIABLES
    context,      \* the execution context: is `window` defined, is `localStorage`
    config,       \* the argument of recoilPersist(config)
    faults,       \* how the storage backend currently fails, if it does
    initialItem,  \* what every storage key held at the start
    keyCalls,     \* how many times config.key() has been invoked
    instances,    \* one entry per invocation of recoilPersist(config)
    store,        \* the content of each backend under each key
    atoms,        \* per instance and node: the attachment of persistAtom
    nAttach,      \* attachments made
    sets,         \* the invocations of onSet callbacks
    nSets,        \* external sets issued
    microtasks,   \* the FIFO queue of promise jobs
    last,         \* the most recently finished onSet invocation
    getCalls,     \* every storage.getItem call made
    setCalls      \* every storage.setItem call made

vars ==
    <<context, config, faults, initialItem, keyCalls, instances, store, atoms,
      nAttach, sets, nSets, microtasks, last, getCalls, setCalls>>

Instances == 1..MaxInstances
SetIds == 1..MaxSets

\* the most recently finished onSet invocation: how it ended, which it was,
\* what it was given, and whether the snapshot it read had the key of its node
NoLast ==
    [outcome |-> "none", id |-> 0, inst |-> 0, node |-> "", value |-> NoEntry,
     hadKey |-> FALSE]

\* an attachment: `reads` counts the getItem calls the attach call made,
\* `pushes` lists the setSelf calls of the effect, `cell` is the value the
\* atom holds (NoEntry: its own default)
NoAtom ==
    [attached |-> FALSE, trigger |-> "none", subscribed |-> FALSE,
     threw |-> FALSE, pushes |-> <<>>, init |-> "none", raw |-> ItemNull,
     snap |-> SnapEmpty, fresh |-> FALSE, reads |-> 0, cell |-> NoEntry]

\* an invocation of the onSet callback: `reads` and `writes` count its
\* getItem and setItem calls
NoSet ==
    [phase |-> "unissued", inst |-> 0, node |-> "", value |-> NoEntry,
     raw |-> ItemNull, snap |-> SnapEmpty, reads |-> 0, writes |-> 0]

\* a promise job: the continuation of set invocation `id`, or of the
\* initialization read of the atom `node` of instance `inst`
SetJob(id) == [kind |-> "set", id |-> id, inst |-> 0, node |-> ""]
InitJob(i, k) == [kind |-> "init", id |-> 0, inst |-> i, node |-> k]

\* localStorage.getItem returns null, never undefined, for a missing key
InitialStore(b) ==
    IF b = "localStorage" /\ initialItem = ItemUndefined THEN ItemNull
    ELSE initialItem

Contexts == [window : BOOLEAN, localStorage : BOOLEAN]
Browser == [window |-> TRUE, localStorage |-> TRUE]
Configs ==
    [key : {"omitted", "static", "function"},
     storage : {"omitted", "sync", "async"}]

\* the failures of a backend: getItem throws, or the Promise it returned is
\* rejected; setItem throws, or returns a Promise that is rejected
Faults == [read : {"none", "throws", "rejects"},
           write : {"none", "throws", "rejects"}]
NoFaults == [read |-> "none", write |-> "none"]

\* the state after recoilPersist(config) has returned (line 36): nothing has
\* run yet, config is held by the closure
Start(ctxs, cfgs, items, fs) ==
    /\ context \in ctxs
    /\ config \in cfgs
    /\ faults \in fs
    /\ faults.read = "rejects" => config.storage = "async"
    /\ faults.write = "rejects" => config.storage = "async"
    /\ initialItem \in items
    /\ config.storage = "omitted" => initialItem # ItemUndefined
    /\ store = [b \in Backends |-> [key \in StorageKeys |-> InitialStore(b)]]
    /\ atoms = [a \in Instances \X Cells |-> NoAtom]
    /\ nAttach = 0
    /\ sets = [id \in SetIds |-> NoSet]
    /\ nSets = 0
    /\ microtasks = <<>>
    /\ last = NoLast
    /\ getCalls = {}
    /\ setCalls = {}

(***************************************************************************)
(* The closure of one instance (lines 44-46): storage, key, settings.      *)
(***************************************************************************)
\* const { storage = localStorage } = config (line 44)
StorageOf(cfg) == IF cfg.storage = "omitted" THEN "localStorage" ELSE "injected"

\* does getItem of the backend return its value immediately or a Promise
ReturnsPromise(b) == b = "injected" /\ config.storage = "async"

\* the key and the backend the closure of instance i holds (lines 44, 46)
\* the key resolved again at each use instead of once in the closure
KeyOfResolvedAtUse(i) == GetKey(config, keyCalls)

KeyOf(i) == instances[i].key
BackendOf(i) == instances[i].backend

\* storage.getItem(key) of instance i (line 81): what a working backend
\* yields, what the call yields, and what the Promise it returned settles with
GetItem(i) == store[BackendOf(i)][KeyOf(i)]
GetItemCall(i) == IF faults.read = "throws" THEN ItemThrown ELSE GetItem(i)
GetItemSettled(i) == IF faults.read = "rejects" THEN ItemRejected ELSE GetItem(i)
CallOf(i) == [inst |-> i, backend |-> BackendOf(i), key |-> KeyOf(i)]

(***************************************************************************)
(* (settings) => { ... } (lines 36-46, 117): one invocation of the         *)
(* function recoilPersist(config) returned.  Without `window` it returns   *)
(* the empty effect.  With `window`, an omitted storage evaluates the      *)
(* default `localStorage`, a ReferenceError where no such global exists;   *)
(* the key is resolved after that.                                         *)
(***************************************************************************)
DegradedMode(ctx, cfg) == ~ctx.window

DefaultStorageThrows(ctx, cfg) ==
    ctx.window /\ cfg.storage = "omitted" /\ ~ctx.localStorage

NewInstance(ctx, cfg, counter, serialize, deserialize) ==
    IF DegradedMode(ctx, cfg)
    THEN [status |-> "noop", key |-> "", backend |-> "none",
          serialize |-> serialize, deserialize |-> deserialize]
    ELSE IF DefaultStorageThrows(ctx, cfg)
    THEN [status |-> "threw", key |-> "", backend |-> "none",
          serialize |-> serialize, deserialize |-> deserialize]
    ELSE [status |-> "live", key |-> GetKey(cfg, counter),
          backend |-> StorageOf(cfg),
          serialize |-> serialize, deserialize |-> deserialize]

RecoilPersist(serialize, deserialize) ==
    /\ Len(instances) < MaxInstances
    /\ LET inst == NewInstance(context, config, keyCalls, serialize, deserialize)
       IN /\ instances' = Append(instances, inst)
          /\ keyCalls' = IF inst.status = "live" /\ config.key = "function"
                         THEN keyCalls + 1 ELSE keyCalls
    /\ UNCHANGED <<context, config, faults, initialItem, store, atoms, nAttach, sets,
                   nSets, microtasks, last, getCalls, setCalls>>

(***************************************************************************)
(* persistAtom (lines 48-78): the attachment of the effect to the atom     *)
(* `k`.  The empty effect of the degraded mode does nothing.  With trigger *)
(* 'get' the snapshot is read: a Promise gets a continuation (lines 51-57) *)
(* and has no own property `k` (line 58); an immediate snapshot is tested  *)
(* and pushed at once (lines 58-60); `state.then` on the snapshot null     *)
(* throws a TypeError before onSet is reached, and so does a getItem that  *)
(* throws: nothing on the way catches it.                                  *)
(***************************************************************************)
\* A node has one attachment at a time: attaching again is a fresh atom of
\* the same key (the earlier one is gone with its store), which starts with
\* no setSelf call.  `fresh` records that no onSet invocation has finished
\* since the attachment.
AttachedAtom(trigger) ==
    [NoAtom EXCEPT !.attached = TRUE, !.trigger = trigger, !.fresh = TRUE]

\* an attachment that reads and initializes whatever the trigger is
PersistAtomResultIgnoringTrigger(inst, k, trigger, promise, item) ==
    IF inst.status = "noop" THEN AttachedAtom(trigger)
    ELSE IF promise
    THEN [AttachedAtom(trigger) EXCEPT
             !.subscribed = TRUE, !.init = "pending", !.reads = 1]
    ELSE LET state == GetStateImmediate(item)
         IN IF state.type \in {"null", "thrown"}
            THEN [AttachedAtom(trigger) EXCEPT !.threw = TRUE, !.reads = 1]
            ELSE IF HasOwnProperty(state, k)
            THEN [AttachedAtom(trigger) EXCEPT
                     !.subscribed = TRUE,
                     !.init = "done",
                     !.reads = 1,
                     !.pushes = <<SetSelfValue(state, k, inst.deserialize)>>,
                     !.cell = SetSelfValue(state, k, inst.deserialize)]
            ELSE [AttachedAtom(trigger) EXCEPT
                     !.subscribed = TRUE, !.init = "done", !.reads = 1]

PersistAtomResult(inst, k, trigger, promise, item) ==
    IF inst.status = "noop" THEN AttachedAtom(trigger)
    ELSE IF trigger # "get"
    THEN [AttachedAtom(trigger) EXCEPT !.subscribed = TRUE]
    ELSE IF promise
    THEN [AttachedAtom(trigger) EXCEPT
             !.subscribed = TRUE, !.init = "pending", !.reads = 1]
    ELSE LET state == GetStateImmediate(item)
         IN IF state.type \in {"null", "thrown"}
            THEN [AttachedAtom(trigger) EXCEPT !.threw = TRUE, !.reads = 1]
            ELSE IF HasOwnProperty(state, k)
            THEN [AttachedAtom(trigger) EXCEPT
                     !.subscribed = TRUE,
                     !.init = "done",
                     !.reads = 1,
                     !.pushes = <<SetSelfValue(state, k, inst.deserialize)>>,
                     !.cell = SetSelfValue(state, k, inst.deserialize)]
            ELSE [AttachedAtom(trigger) EXCEPT
                     !.subscribed = TRUE, !.init = "done", !.reads = 1]

InitInFlight(a) == atoms[a].init \in {"pending", "parse", "then"}
SetInFlight(id) == sets[id].phase \in {"pending", "parse", "cont"}

PersistAtom(i, k, trigger) ==
    /\ i \in DOMAIN instances
    /\ instances[i].status # "threw"
    /\ nAttach < MaxAttach
    /\ ~InitInFlight(<<i, k>>)
    /\ nAttach' = nAttach + 1
    /\ IF instances[i].status = "noop"
       THEN /\ atoms' = [atoms EXCEPT ![<<i, k>>] =
                   PersistAtomResult(instances[i], k, trigger, FALSE, ItemNull)]
            /\ UNCHANGED getCalls
       ELSE /\ atoms' = [atoms EXCEPT ![<<i, k>>] =
                   PersistAtomResult(instances[i], k, trigger,
                                     ReturnsPromise(BackendOf(i))
                                         /\ faults.read # "throws",
                                     GetItemCall(i))]
            /\ getCalls' = IF trigger = "get" THEN getCalls \cup {CallOf(i)}
                           ELSE getCalls
    /\ UNCHANGED <<context, config, faults, initialItem, keyCalls, instances, store,
                   sets, nSets, microtasks, last, setCalls>>

\* setState (lines 107-115): storage.setItem(key, JSON.stringify(state)).
\* An exception of JSON.stringify or of setItem is caught and logged; a
\* setItem that throws, or whose Promise is rejected, stores nothing.
\* a writer that merges the snapshot into what the storage holds (mergeItem)
SetStateMerging(st, b, key, state) ==
    [st EXCEPT ![b][key] =
        ItemObject([k \in Cells |->
            IF JsonStringifyValue(state.fields[k]) # NoEntry
            THEN JsonStringifyValue(state.fields[k])
            ELSE st[b][key].fields[k]])]

SetState(st, b, key, state) == [st EXCEPT ![b][key] = JsonStringify(state)]

\* setState taking every write for stored, a failed one included
SetStateOutcomeAlwaysWritten(state, f) == "written"

\* how setState(state) ends under the write failure f
SetStateOutcome(state, f) ==
    IF JsonStringifyThrows(state) THEN "stringifyThrew"
    ELSE IF f = "throws" THEN "setItemThrew"
    ELSE IF f = "rejects" THEN "setItemRejected"
    ELSE "written"

(***************************************************************************)
(* An external set of atom `k`: the atom holds the new value and recoil    *)
(* invokes the callback registered by onSet (line 63).  The async function *)
(* runs to its `await`: getState() is called (line 64); if getItem throws  *)
(* the function ends there, its Promise rejected; an immediate snapshot    *)
(* resumes the function in a later microtask, a pending one when it has    *)
(* settled.                                                                *)
(***************************************************************************)
Stale(as) == [a \in DOMAIN as |-> [as[a] EXCEPT !.fresh = FALSE]]

\* a queue of promise jobs that runs the newest job first
EnqueueFirst(queue, job) == <<job>> \o queue

\* the host's queue of promise jobs is first in, first out
Enqueue(queue, job) == Append(queue, job)

\* the record of the invocation `id` of the callback once it has ended: how
\* it ended, on which cell, and its calls
Ended(t, phase, writes) ==
    [t EXCEPT !.phase = phase, !.writes = writes, !.value = NoEntry,
              !.raw = ItemNull, !.snap = SnapEmpty]

Outcome(outcome, id, t) ==
    [outcome |-> outcome, id |-> id, inst |-> t.inst, node |-> t.node,
     value |-> t.value, hadKey |-> HasOwnProperty(t.snap, t.node)]

\* the callback without its `await`: the whole body runs at once on what
\* getState returned, which for a pending read is the Promise, written as
\* an object with the one property assigned to it
OnSetWithoutAwait(i, k, newValue) ==
    /\ i \in DOMAIN instances
    /\ atoms[<<i, k>>].subscribed
    /\ nSets < MaxSets
    /\ nSets' = nSets + 1
    /\ getCalls' = getCalls \cup {CallOf(i)}
    /\ setCalls' = setCalls \cup {CallOf(i)}
    /\ LET id == nSets + 1
           t == [NoSet EXCEPT !.inst = i, !.node = k, !.value = newValue,
                              !.reads = 1]
           state == IF ReturnsPromise(BackendOf(i)) THEN SnapEmpty
                    ELSE GetStateImmediate(GetItemCall(i))
       IN /\ sets' = [sets EXCEPT ![id] = Ended(t, "done", 1)]
          /\ last' = Outcome("written", id, t)
          /\ atoms' = Stale([atoms EXCEPT ![<<i, k>>].cell = newValue])
          /\ store' = SetState(store, BackendOf(i), KeyOf(i),
                               OnSetState(state, k, newValue,
                                          instances[i].serialize))
    /\ UNCHANGED <<context, config, faults, initialItem, keyCalls, instances,
                   nAttach, microtasks>>

OnSet(i, k, newValue) ==
    /\ i \in DOMAIN instances
    /\ atoms[<<i, k>>].subscribed
    /\ nSets < MaxSets
    /\ nSets' = nSets + 1
    /\ getCalls' = getCalls \cup {CallOf(i)}
    /\ LET id == nSets + 1
           held == [atoms EXCEPT ![<<i, k>>].cell = newValue]
           t == [NoSet EXCEPT !.inst = i, !.node = k, !.value = newValue,
                              !.reads = 1]
       IN IF faults.read = "throws"
          THEN /\ sets' = [sets EXCEPT ![id] = Ended(t, "rejected", 0)]
               /\ last' = Outcome("rejected", id, t)
               /\ atoms' = Stale(held)
               /\ UNCHANGED microtasks
          ELSE IF ReturnsPromise(BackendOf(i))
          THEN /\ sets' = [sets EXCEPT ![id] = [t EXCEPT !.phase = "pending"]]
               /\ atoms' = held
               /\ UNCHANGED <<microtasks, last>>
          ELSE /\ sets' = [sets EXCEPT ![id] =
                      [t EXCEPT !.phase = "cont",
                                !.snap = GetStateImmediate(GetItemCall(i))]]
               /\ microtasks' = Enqueue(microtasks, SetJob(id))
               /\ atoms' = held
               /\ UNCHANGED last
    /\ UNCHANGED <<context, config, faults, initialItem, keyCalls, instances,
                   store, nAttach, setCalls>>

(***************************************************************************)
(* The Promise an asynchronous getItem returned settles, at any later step, *)
(* with what is stored at that step (null or undefined when nothing is);   *)
(* or is rejected; `toParse.then(parseState)` (line 89) becomes a promise  *)
(* job.  setItem takes effect when it is called, on every backend.         *)
(***************************************************************************)
ResolveSetRead(id) ==
    /\ sets[id].phase = "pending"
    /\ sets' = [sets EXCEPT ![id].phase = "parse",
                            ![id].raw = GetItemSettled(sets[id].inst)]
    /\ microtasks' = Enqueue(microtasks, SetJob(id))
    /\ UNCHANGED <<context, config, faults, initialItem, keyCalls, instances, store,
                   atoms, nAttach, nSets, last, getCalls, setCalls>>

ResolveInitRead(i, k) ==
    /\ atoms[<<i, k>>].init = "pending"
    /\ atoms' = [atoms EXCEPT ![<<i, k>>].init = "parse",
                              ![<<i, k>>].raw = GetItemSettled(i)]
    /\ microtasks' = Enqueue(microtasks, InitJob(i, k))
    /\ UNCHANGED <<context, config, faults, initialItem, keyCalls, instances, store,
                   sets, nSets, nAttach, last, getCalls, setCalls>>

(***************************************************************************)
(* Promise jobs, run in FIFO order.                                        *)
(***************************************************************************)
\* parseState as the reaction of toParse.then (line 89), in a set invocation
SetParse(id) ==
    /\ microtasks # <<>>
    /\ Head(microtasks) = SetJob(id)
    /\ sets[id].phase = "parse"
    /\ sets' = [sets EXCEPT ![id].phase = "cont",
                            ![id].snap = ThenParseState(sets[id].raw),
                            ![id].raw = ItemNull]
    /\ microtasks' = Enqueue(Tail(microtasks), SetJob(id))
    /\ UNCHANGED <<context, config, faults, initialItem, keyCalls, instances, store,
                   atoms, nAttach, nSets, last, getCalls, setCalls>>

\* the onSet callback from its await to its end (lines 64-76)
SetContinue(id) ==
    /\ microtasks # <<>>
    /\ Head(microtasks) = SetJob(id)
    /\ sets[id].phase = "cont"
    /\ microtasks' = Tail(microtasks)
    /\ atoms' = Stale(atoms)
    /\ LET t == sets[id]
           i == t.inst
           state == OnSetState(t.snap, t.node, t.value, instances[i].serialize)
           outcome == SetStateOutcome(state, faults.write)
       IN IF OnSetThrows(t.snap, t.node, t.value)
          THEN /\ sets' = [sets EXCEPT ![id] = Ended(t, "rejected", 0)]
               /\ last' = Outcome("rejected", id, t)
               /\ UNCHANGED <<store, setCalls>>
          ELSE /\ last' = Outcome(outcome, id, t)
               /\ IF outcome = "stringifyThrew"
                  THEN /\ sets' = [sets EXCEPT ![id] = Ended(t, "done", 0)]
                       /\ UNCHANGED <<store, setCalls>>
                  ELSE /\ sets' = [sets EXCEPT ![id] = Ended(t, "done", 1)]
                       /\ setCalls' = setCalls \cup {CallOf(i)}
                       /\ store' = IF outcome = "written"
                                   THEN SetState(store, BackendOf(i), KeyOf(i),
                                                 state)
                                   ELSE store
    /\ UNCHANGED <<context, config, faults, initialItem, keyCalls, instances,
                   nAttach, nSets, getCalls>>

\* parseState as the reaction of toParse.then (line 89), in an initialization
InitParse(i, k) ==
    /\ microtasks # <<>>
    /\ Head(microtasks) = InitJob(i, k)
    /\ atoms[<<i, k>>].init = "parse"
    /\ atoms' = [atoms EXCEPT ![<<i, k>>].init = "then",
                              ![<<i, k>>].snap =
                                  ThenParseState(atoms[<<i, k>>].raw),
                              ![<<i, k>>].raw = ItemNull]
    /\ microtasks' = Enqueue(Tail(microtasks), InitJob(i, k))
    /\ UNCHANGED <<context, config, faults, initialItem, keyCalls, instances, store,
                   sets, nSets, nAttach, last, getCalls, setCalls>>

\* a continuation of state.then that never calls setSelf
InitThenResultNeverPushes(atom, inst, k) ==
    IF atom.snap.type \in {"null", "rejected"}
    THEN [atom EXCEPT !.init = "rejected", !.snap = SnapEmpty]
    ELSE [atom EXCEPT !.init = "done", !.snap = SnapEmpty]

\* the continuation of state.then (lines 52-56); s.hasOwnProperty on null
\* throws a TypeError, which rejects the promise `then` returned; a rejected
\* `state` rejects it as well, the continuation not called.  Nothing handles
\* the rejection of that promise.
InitThenResult(atom, inst, k) ==
    IF atom.snap.type \in {"null", "rejected"}
    THEN [atom EXCEPT !.init = "rejected", !.snap = SnapEmpty]
    ELSE IF HasOwnProperty(atom.snap, k)
    THEN [atom EXCEPT
             !.init = "done",
             !.snap = SnapEmpty,
             !.pushes = Append(atom.pushes,
                               SetSelfValue(atom.snap, k, inst.deserialize)),
             !.cell = SetSelfValue(atom.snap, k, inst.deserialize)]
    ELSE [atom EXCEPT !.init = "done", !.snap = SnapEmpty]

InitThen(i, k) ==
    /\ microtasks # <<>>
    /\ Head(microtasks) = InitJob(i, k)
    /\ atoms[<<i, k>>].init = "then"
    /\ atoms' = [atoms EXCEPT ![<<i, k>>] =
                    InitThenResult(atoms[<<i, k>>], instances[i], k)]
    /\ microtasks' = Tail(microtasks)
    /\ UNCHANGED <<context, config, faults, initialItem, keyCalls, instances, store,
                   sets, nSets, nAttach, last, getCalls, setCalls>>

Triggers == {"get", "set"}

\* the promise jobs and the settling of pending reads
Run ==
    \/ \E id \in SetIds : ResolveSetRead(id)
    \/ \E i \in Instances, k \in Cells : ResolveInitRead(i, k)
    \/ \E id \in SetIds : SetParse(id)
    \/ \E id \in SetIds : SetContinue(id)
    \/ \E i \in Instances, k \in Cells : InitParse(i, k)
    \/ \E i \in Instances, k \in Cells : InitThen(i, k)

Quiescent ==
    /\ \A id \in SetIds : ~SetInFlight(id)
    /\ \A a \in Instances \X Cells : ~InitInFlight(a)

(***************************************************************************)
(* Spec: one persistAtom, built in a browser with a static key, for every  *)
(* backend, every pair of settings and every stored content; attachments   *)
(* and external sets arrive at any time.                                   *)
(***************************************************************************)
Init ==
    /\ Start({Browser}, {c \in Configs : c.key = "static"}, InitialItems,
             {NoFaults})
    /\ keyCalls = 0
    /\ \E serialize \in BOOLEAN, deserialize \in BOOLEAN :
           instances = <<NewInstance(context, config, 0, serialize, deserialize)>>

Next ==
    \/ \E i \in Instances, k \in Cells, trigger \in Triggers :
           PersistAtom(i, k, trigger)
    \/ \E i \in Instances, k \in Cells, newValue \in SetValues :
           OnSet(i, k, newValue)
    \/ Run

Spec == Init /\ [][Next]_vars

(***************************************************************************)
(* SeqSpec: the same, driven sequentially: an attachment or a set is       *)
(* issued only when every earlier callback has finished.                   *)
(***************************************************************************)
SeqNext ==
    \/ /\ Quiescent
       /\ \E i \in Instances, k \in Cells, trigger \in Triggers :
              PersistAtom(i, k, trigger)
    \/ /\ Quiescent
       /\ \E i \in Instances, k \in Cells, newValue \in SetValues :
              OnSet(i, k, newValue)
    \/ Run

SeqSpec == Init /\ [][SeqNext]_vars

(***************************************************************************)
(* ConfigSpec: every execution context and every configuration, from the   *)
(* return of recoilPersist(config) on; the persisted values are not what   *)
(* is looked at here: no settings, one value, a filled store, attachments  *)
(* and sets issued one after the other.                                    *)
(***************************************************************************)
ConfigInit ==
    /\ Start(Contexts, Configs, {FilledItem}, {NoFaults})
    /\ keyCalls = 0
    /\ instances = <<>>

ConfigNext ==
    \/ RecoilPersist(FALSE, FALSE)
    \/ /\ Quiescent
       /\ \E i \in Instances, k \in Cells, trigger \in Triggers :
              PersistAtom(i, k, trigger)
    \/ /\ Quiescent
       /\ \E i \in Instances, k \in Cells : OnSet(i, k, Num5)
    \/ Run

ConfigSpec == ConfigInit /\ [][ConfigNext]_vars

(***************************************************************************)
(* FaultSpec: a backend that fails.  One persistAtom without settings in a *)
(* browser, a JSON object in storage; getItem and setItem work, throw, or  *)
(* (asynchronous backend) return a Promise that is rejected, and a failing *)
(* backend may recover between two operations.  Attachments and sets are   *)
(* issued one after the other.                                             *)
(***************************************************************************)
ObjectItems == {ItemObject(NoFields), FilledItem}
FaultSetValues == {Num5, BigIntValue}

FaultInit ==
    /\ Start({Browser}, {c \in Configs : c.key = "static"}, ObjectItems, Faults)
    /\ keyCalls = 0
    /\ instances = <<NewInstance(context, config, 0, FALSE, FALSE)>>

StorageRecovers ==
    /\ faults # NoFaults
    /\ faults' = NoFaults
    /\ UNCHANGED <<context, config, initialItem, keyCalls, instances, store,
                   atoms, nAttach, sets, nSets, microtasks, last, getCalls,
                   setCalls>>

FaultNext ==
    \/ /\ Quiescent
       /\ StorageRecovers
    \/ /\ Quiescent
       /\ \E i \in Instances, k \in Cells, trigger \in Triggers :
              PersistAtom(i, k, trigger)
    \/ /\ Quiescent
       /\ \E i \in Instances, k \in Cells, newValue \in FaultSetValues :
              OnSet(i, k, newValue)
    \/ Run

FaultSpec == FaultInit /\ [][FaultNext]_vars

(***************************************************************************)
(* RaceSpec: a backend that works, a JSON object in storage, one           *)
(* persistAtom without settings.  The cells are attached and initialized,  *)
(* then external sets of plain values arrive at any time, also while       *)
(* earlier callbacks are in flight.                                        *)
(***************************************************************************)
RaceValues == {Num5, StrA}

RaceInit ==
    /\ Start({Browser}, {c \in Configs : c.key = "static"}, ObjectItems,
             {NoFaults})
    /\ keyCalls = 0
    /\ instances = <<NewInstance(context, config, 0, FALSE, FALSE)>>

RaceNext ==
    \/ /\ nSets = 0
       /\ \E i \in Instances, k \in Cells, trigger \in Triggers :
              PersistAtom(i, k, trigger)
    \/ /\ \A a \in Instances \X Cells : ~InitInFlight(a)
       /\ \E i \in Instances, k \in Cells, newValue \in RaceValues :
              OnSet(i, k, newValue)
    \/ Run

RaceSpec == RaceInit /\ [][RaceNext]_vars

(***************************************************************************)
(* InitRaceSpec: the same, with external sets arriving also while the      *)
(* initialization reads are in flight.                                     *)
(***************************************************************************)
InitRaceNext ==
    \/ /\ nSets = 0
       /\ \E i \in Instances, k \in Cells, trigger \in Triggers :
              PersistAtom(i, k, trigger)
    \/ \E i \in Instances, k \in Cells, newValue \in RaceValues :
           OnSet(i, k, newValue)
    \/ Run

InitRaceSpec == RaceInit /\ [][InitRaceNext]_vars

(***************************************************************************)
(* Vocabulary of the properties.                                           *)
(***************************************************************************)
\* the mapping a stored item denotes: nothing stored is the empty mapping
StoredMapping(item) == [k \in Cells |-> JsonParseValue(item.fields[k])]
HoldsMapping(item) == item.kind \in {"null", "undefined", "jsonObject"}

\* what JSON keeps of a value: NaN is read back as null, a DefaultValue
\* instance as {}, and a property holding undefined is not written at all
JsonImage(v) ==
    CASE v = Undefined -> NoEntry
      [] v = NaNValue -> NullValue
      [] v = DefaultValue -> EmptyObject
      [] OTHER -> v

\* s(v) and d(w) for the settings of instance i; absent functions are the
\* identity
Serialized(i, v) == IF instances[i].serialize THEN <<"string", "ser">> \o v ELSE v
Deserialized(i, w) == IF instances[i].deserialize THEN <<"des">> \o w ELSE w

\* this step is the end of the onSet invocation id (its body ran)
Finishes(id) ==
    /\ sets[id].phase = "cont"
    /\ sets'[id].phase \in {"done", "rejected"}

ItemOf(st, id) == st[BackendOf(sets[id].inst)][KeyOf(sets[id].inst)]

\* C1. Sequential merge: when the sets are processed one after the other, a
\* finished set of value v on cell k leaves in storage the mapping that was
\* there with k overridden by the (serialized) v, or with k removed when v
\* is the reset sentinel, and every other entry unchanged; by induction the
\* blob after a sequence is M overridden with the last value of every cell.
C1_SequentialMerge ==
    [][\A id \in SetIds :
          (Finishes(id) /\ HoldsMapping(ItemOf(store, id)))
          => StoredMapping(ItemOf(store', id)) =
                 [StoredMapping(ItemOf(store, id)) EXCEPT
                     ![sets[id].node] =
                         IF sets[id].value = DefaultValue THEN NoEntry
                         ELSE JsonImage(Serialized(sets[id].inst, sets[id].value))]
      ]_vars

\* C2 as stated. Round trip: a fresh cell k attached with trigger 'get'
\* after the set of v on k was persisted, nothing written since, has had
\* setSelf called exactly once, with d(s(v)) (v itself without settings).
RoundTripCase(i, k) ==
    /\ i \in DOMAIN instances
    /\ atoms[<<i, k>>].attached
    /\ atoms[<<i, k>>].trigger = "get"
    /\ atoms[<<i, k>>].fresh
    /\ ~InitInFlight(<<i, k>>)
    /\ last.outcome = "written"
    /\ last.inst = i
    /\ last.node = k
    /\ last.value # DefaultValue

C2_RoundTripAsStated ==
    \A i \in Instances, k \in Cells :
        RoundTripCase(i, k)
        => atoms[<<i, k>>].pushes = <<Deserialized(i, Serialized(i, last.value))>>

\* C2 amended. Round trip through JSON: setSelf is called exactly once, with
\* d(x), x being what JSON keeps of s(v) (of v without a serializer): s(v)
\* itself for the string a serializer returns, v itself for a value JSON
\* represents, null for NaN; when v is undefined and no serializer is
\* configured nothing is persisted for k and setSelf is not called.
C2_RoundTrip ==
    \A i \in Instances, k \in Cells :
        RoundTripCase(i, k)
        => atoms[<<i, k>>].pushes =
               IF JsonImage(Serialized(i, last.value)) = NoEntry THEN <<>>
               ELSE <<Deserialized(i, JsonImage(Serialized(i, last.value)))>>

C2_Witness ==
    \E i \in Instances, k \in Cells :
        /\ RoundTripCase(i, k)
        /\ instances[i].serialize
        /\ instances[i].deserialize
        /\ ReturnsPromise(BackendOf(i))
        /\ atoms[<<i, k>>].pushes = <<<<"des", "string", "ser", "number", "5">>>>

\* C3. Reset with the key present: an onSet invocation given the reset
\* sentinel whose snapshot has the key of its node writes the snapshot
\* without that key, every other entry unchanged.
C3_ResetRemovesKey ==
    [][\A id \in SetIds :
          (/\ Finishes(id)
           /\ sets[id].value = DefaultValue
           /\ HasOwnProperty(sets[id].snap, sets[id].node))
          => /\ sets'[id].phase = "done"
             /\ ItemOf(store', id).kind = "jsonObject"
             /\ StoredMapping(ItemOf(store', id)) =
                    [sets[id].snap.fields EXCEPT ![sets[id].node] = NoEntry]
      ]_vars

C3_Witness ==
    /\ last.outcome = "written"
    /\ last.value = DefaultValue
    /\ last.hadKey
    /\ \E k \in Cells :
           /\ k # last.node
           /\ GetItem(last.inst).fields[k] # NoEntry
           /\ GetItem(last.inst).fields[last.node] = NoEntry

\* C4. Reset with the key absent is a no-op on the blob: an onSet invocation
\* given the reset sentinel whose snapshot lacks the key of its node leaves
\* the mapping held in storage as it was.
C4_ResetAbsentNoOp ==
    [][\A id \in SetIds :
          (/\ Finishes(id)
           /\ sets[id].value = DefaultValue
           /\ HoldsMapping(ItemOf(store, id))
           /\ ~HasOwnProperty(sets[id].snap, sets[id].node))
          => StoredMapping(ItemOf(store', id)) = StoredMapping(ItemOf(store, id))
      ]_vars

\* what a backend whose getItem returns at once leaves in storage for the
\* set that invocation id carries out, given the same stored content
ImmediateOutcome(id) ==
    LET state == GetStateImmediate(ItemOf(store, id))
    IN IF OnSetThrows(state, sets[id].node, sets[id].value)
       THEN ItemOf(store, id)
       ELSE JsonStringify(OnSetState(state, sets[id].node, sets[id].value,
                                     instances[sets[id].inst].serialize))

\* C5. Sync/async equivalence: with the attachments and sets processed one
\* after the other, every set ends with the content in storage that an
\* immediate backend would have produced from the same stored content, and
\* every initialization read ends with the setSelf calls an immediate
\* backend would have made.
C5_SyncAsyncEquivalence ==
    [][/\ \A id \in SetIds :
              Finishes(id) => ItemOf(store', id) = ImmediateOutcome(id)
       /\ \A i \in DOMAIN instances, k \in Cells :
              (atoms[<<i, k>>].init = "then"
                   /\ atoms'[<<i, k>>].init \in {"done", "rejected"})
              => atoms'[<<i, k>>].pushes =
                     PersistAtomResult(instances[i], k, "get", FALSE,
                                       GetItem(i)).pushes
      ]_vars

\* C6. Malformed stored content recovers: while the text under the key is
\* unparseable, no attachment has thrown, no initialization has pushed a
\* value or failed and no set callback has been rejected; and a set of the
\* value v on cell k that finds the unparseable text ends by writing the
\* JSON text of the object whose only entry is k: serialized v.
C6_MalformedRecovers ==
    /\ [](\A i \in DOMAIN instances :
             GetItem(i).kind = "malformed"
             => /\ \A k \in Cells :
                       /\ ~atoms[<<i, k>>].threw
                       /\ atoms[<<i, k>>].init # "rejected"
                       /\ atoms[<<i, k>>].pushes = <<>>
                       /\ atoms[<<i, k>>].attached => atoms[<<i, k>>].subscribed
                /\ \A id \in SetIds : sets[id].phase # "rejected")
    /\ [][\A id \in SetIds :
             (/\ Finishes(id)
              /\ ItemOf(store, id).kind = "malformed"
              /\ sets[id].value # DefaultValue)
             => /\ sets'[id].phase = "done"
                /\ ItemOf(store', id).kind = "jsonObject"
                /\ StoredMapping(ItemOf(store', id)) =
                       [NoFields EXCEPT ![sets[id].node] =
                           JsonImage(Serialized(sets[id].inst, sets[id].value))]
         ]_vars

C6_Witness ==
    /\ initialItem = ItemMalformed
    /\ nSets = 1
    /\ last.outcome = "written"
    /\ last.value = Num5
    /\ ReturnsPromise(BackendOf(last.inst))
    /\ atoms[<<last.inst, last.node>>].trigger = "get"
    /\ atoms[<<last.inst, last.node>>].init = "done"
    /\ GetItem(last.inst).kind = "jsonObject"
    /\ GetItem(last.inst).fields[last.node] = <<"text", "number", "5">>

Live(i) == i \in DOMAIN instances /\ instances[i].status = "live"
Calls == getCalls \cup setCalls

\* C7. Degraded mode is inert: when the storage is omitted and the execution
\* context has no ambient storage, obtaining the effect does not throw, and
\* the effect makes no getItem and no setItem call, never calls setSelf and
\* registers no set callback.
C7_DegradedInert ==
    \A i \in DOMAIN instances :
        (config.storage = "omitted" /\ ~context.localStorage)
        => /\ instances[i].status # "threw"
           /\ \A c \in Calls : c.inst # i
           /\ \A k \in Cells :
                  /\ atoms[<<i, k>>].pushes = <<>>
                  /\ ~atoms[<<i, k>>].subscribed
                  /\ ~atoms[<<i, k>>].threw

\* C8. Injected storage is always used: whenever config.storage is given,
\* in every execution context, an attachment with trigger 'get' has read
\* the injected backend.
C8_InjectedStorageUsed ==
    \A i \in DOMAIN instances :
        config.storage # "omitted"
        => \A k \in Cells :
               (atoms[<<i, k>>].attached /\ atoms[<<i, k>>].trigger = "get")
               => \E c \in getCalls : c.inst = i /\ c.backend = "injected"

C10_DefaultKey ==
    config.key = "omitted" => \A c \in Calls : c.key = DocumentedDefaultKey

\* C11. No read-path failure is surfaced: with a JSON object in storage and
\* a getItem that throws or whose Promise is rejected, no attachment has
\* thrown, no initialization has left a rejected promise without a handler,
\* and no invocation of the set callback has returned a rejected promise.
C11_ReadFailuresAbsorbed ==
    \A i \in DOMAIN instances :
        GetItem(i).kind = "jsonObject"
        => /\ \A k \in Cells :
                  /\ ~atoms[<<i, k>>].threw
                  /\ atoms[<<i, k>>].init # "rejected"
           /\ \A id \in SetIds :
                  sets[id].inst = i => sets[id].phase # "rejected"

\* the text setState would store for the set that invocation id carries
\* out, computed from the content in storage
ReadModifyWrite(id) ==
    [StoredMapping(ItemOf(store, id)) EXCEPT
        ![sets[id].node] = JsonImage(sets[id].value)]

WriteFails(id) ==
    \/ faults.write # "none"
    \/ sets[id].value = BigIntValue
    \/ \E k \in Cells : sets[id].snap.fields[k] = BigIntValue

\* C12. Write failures are absorbed and not retried: an invocation of the
\* set callback whose read gave a snapshot ends fulfilled, having called
\* setItem at most once and queued nothing; when JSON.stringify or setItem
\* fails (throws, or setItem returns a Promise that is rejected) the content
\* of storage is what it was, and when the write succeeds, also after failed
\* ones, the content is the stored mapping with the entry of the node set.
C12_WriteFailuresAbsorbed ==
    [][\A id \in SetIds :
          (Finishes(id) /\ sets[id].snap.type = "object")
          => /\ sets'[id].phase = "done"
             /\ sets'[id].writes \in {0, 1}
             /\ microtasks' = Tail(microtasks)
             /\ \A other \in SetIds \ {id} : sets'[other] = sets[other]
             /\ IF WriteFails(id)
                THEN store' = store
                ELSE /\ sets'[id].writes = 1
                     /\ ItemOf(store', id).kind = "jsonObject"
                     /\ StoredMapping(ItemOf(store', id)) = ReadModifyWrite(id)
      ]_vars

C12_Witness ==
    /\ initialItem = ItemObject(NoFields)
    /\ sets[1].phase = "done"
    /\ sets[1].node = "count"
    /\ sets[1].writes = 1
    /\ sets[2].phase = "done"
    /\ sets[2].node = "name"
    /\ last.id = 2
    /\ last.outcome = "written"
    /\ last.value = Num5
    /\ GetItem(1).fields["count"] = NoEntry
    /\ GetItem(1).fields["name"] = <<"text", "number", "5">>

\* C13. Lost-update race: a write is the snapshot its invocation read with
\* the entry of its own node set, whatever the storage holds by then (no
\* lock, no version check, no merge); so when two set callbacks on two
\* different cells of one key have both read before either writes, the blob
\* after both writes lacks the change of the cell that wrote first.
C13_LastWriteWins ==
    [][\A id \in SetIds :
          Finishes(id)
          => /\ sets'[id].phase = "done"
             /\ ItemOf(store', id).kind = "jsonObject"
             /\ StoredMapping(ItemOf(store', id)) =
                    [sets[id].snap.fields EXCEPT
                        ![sets[id].node] = JsonImage(sets[id].value)]
             /\ \A other \in SetIds \ {id} :
                    (/\ sets[other].phase = "done"
                     /\ sets[other].node # sets[id].node
                     /\ ~HasOwnProperty(sets[id].snap, sets[other].node))
                    => ItemOf(store', id).fields[sets[other].node] = NoEntry
      ]_vars

\* both sets written, the second last, and the entry of the first is gone
LostUpdate ==
    /\ initialItem = ItemObject(NoFields)
    /\ nSets = 2
    /\ sets[1].phase = "done"
    /\ sets[1].writes = 1
    /\ sets[1].node = "count"
    /\ sets[2].phase = "done"
    /\ sets[2].writes = 1
    /\ sets[2].node = "name"
    /\ last.id = 2
    /\ GetItem(1).fields["count"] = NoEntry
    /\ GetItem(1).fields["name"] # NoEntry

\* the race with a backend whose getItem returns at once: the two sets were
\* issued in the same tick
C13_Witness == LostUpdate /\ ~ReturnsPromise(BackendOf(1))

\* the race with a backend whose getItem returns a Promise
C13_PendingRace == LostUpdate /\ ReturnsPromise(BackendOf(1))

\* C14. Read-then-write order inside one set invocation: every invocation
\* has issued exactly one getItem, issued when the callback was invoked, and
\* at most one setItem; a setItem is issued only by the step that runs the
\* callback after its read has settled, so an invocation whose read is
\* still pending, or settling, has written nothing.
C14_ReadThenWrite ==
    /\ [](\A id \in SetIds :
             /\ sets[id].phase # "unissued" => sets[id].reads = 1
             /\ sets[id].phase = "unissued" => sets[id].reads = 0
             /\ sets[id].writes \in {0, 1}
             /\ SetInFlight(id) => sets[id].writes = 0)
    /\ [][/\ \A id \in SetIds :
                sets'[id].writes # sets[id].writes
                => /\ sets[id].phase = "cont"
                   /\ Head(microtasks) = SetJob(id)
          /\ (store' # store \/ setCalls' # setCalls)
                => \E id \in SetIds :
                       Finishes(id) /\ sets'[id].writes = sets[id].writes + 1
         ]_vars

C14_Witness ==
    /\ ReturnsPromise(BackendOf(1))
    /\ sets[1].phase = "pending"
    /\ sets[1].reads = 1
    /\ sets[1].writes = 0
    /\ sets[2].phase = "done"
    /\ sets[2].reads = 1
    /\ sets[2].writes = 1
    /\ sets[2].node = sets[1].node
    /\ microtasks = <<>>

\* C15. The effective snapshot is always a mapping: the snapshot a set
\* callback resumes with, and the one the continuation of a pending
\* initialization is given, is an object for every stored content.
C15_SnapshotIsMapping ==
    /\ \A id \in SetIds :
           sets[id].phase = "cont" => sets[id].snap.type = "object"
    /\ \A i \in DOMAIN instances, k \in Cells :
           atoms[<<i, k>>].init = "then" => atoms[<<i, k>>].snap.type = "object"

\* the setSelf calls an initialization makes on the stored item: one, with
\* the deserialized value of the entry of k, when the item is the text of an
\* object that has the key k
ExpectedPushes(i, k, item) ==
    IF item.kind = "jsonObject" /\ item.fields[k] # NoEntry
    THEN <<Deserialized(i, JsonParseValue(item.fields[k]))>>
    ELSE <<>>

\* C16. Initialization pushes exactly when the key is persisted: an
\* attachment with trigger 'get' whose read has ended (immediate or pending)
\* and since which nothing was written has called setSelf once with the
\* (deserialized) stored value if the stored object has the key of the cell,
\* and not at all otherwise; and attachments alone write nothing and leave
\* a cell that was not pushed to with its own default.
C16_InitPushesIffPersisted ==
    /\ \A i \in DOMAIN instances, k \in Cells :
           (/\ atoms[<<i, k>>].attached
            /\ atoms[<<i, k>>].trigger = "get"
            /\ atoms[<<i, k>>].fresh
            /\ ~InitInFlight(<<i, k>>))
           => atoms[<<i, k>>].pushes = ExpectedPushes(i, k, GetItem(i))
    /\ nSets = 0
       => /\ setCalls = {}
          /\ \A a \in Instances \X Cells :
                 atoms[a].pushes = <<>> => atoms[a].cell = NoEntry
          /\ \A b \in Backends, key \in StorageKeys :
                 store[b][key] = InitialStore(b)

C16_Witness ==
    /\ ReturnsPromise(BackendOf(1))
    /\ instances[1].deserialize
    /\ initialItem = FilledItem
    /\ nSets = 0
    /\ atoms[<<1, "count">>].init = "done"
    /\ atoms[<<1, "count">>].pushes = <<<<"des", "number", "5">>>>
    /\ atoms[<<1, "count">>].cell = <<"des", "number", "5">>

\* C17. Subscription is always registered: every attachment to a working
\* effect has registered its set callback, whatever the trigger and the
\* outcome of the initialization read.
C17_SubscriptionRegistered ==
    \A i \in DOMAIN instances, k \in Cells :
        (Live(i) /\ atoms[<<i, k>>].attached) => atoms[<<i, k>>].subscribed

\* the value JSON text in storage holds for cell k of instance i
Persisted(i, k) == JsonParseValue(GetItem(i).fields[k])

\* C18. No stale initialization read: the continuation of a pending
\* initialization read does not change a cell that an external set has
\* given a value since the attachment; and when one cell has been attached,
\* with trigger 'get', one set has been issued on it and everything has
\* settled, the cell holds the value persisted for it.
C18_NoStaleInitRead ==
    /\ [][\A a \in Instances \X Cells :
             (/\ atoms[a].init = "then"
              /\ atoms'[a].init = "done"
              /\ atoms[a].cell # NoEntry)
             => atoms'[a].cell = atoms[a].cell
         ]_vars
    /\ [](\A k \in Cells :
             (/\ Quiescent
              /\ nAttach = 1
              /\ nSets = 1
              /\ sets[1].phase = "done"
              /\ sets[1].node = k
              /\ atoms[<<1, k>>].trigger = "get")
             => atoms[<<1, k>>].cell = Persisted(1, k))

\* C19. At most one initialization push: an attachment has called setSelf
\* at most once and has issued at most one getItem of its own; with a
\* trigger other than 'get' it has called setSelf never and issued no
\* getItem, and no initialization is pending for it; a pending
\* initialization has pushed nothing yet, so the immediate and the pending
\* branch never both push; and a getItem call made by an attach call is
\* made by one with trigger 'get'.
C19_AtMostOnePush ==
    /\ [](\A a \in Instances \X Cells :
             /\ Len(atoms[a].pushes) <= 1
             /\ atoms[a].reads \in {0, 1}
             /\ InitInFlight(a) => atoms[a].pushes = <<>>
             /\ (atoms[a].attached /\ atoms[a].trigger # "get")
                => /\ atoms[a].pushes = <<>>
                   /\ atoms[a].reads = 0
                   /\ atoms[a].init = "none")
    /\ [][(nAttach' # nAttach /\ getCalls' # getCalls)
             => \E a \in Instances \X Cells :
                    /\ atoms'[a].trigger = "get"
                    /\ atoms'[a].reads = 1
                    /\ atoms'[a].fresh
         ]_vars

C19_Witness ==
    /\ initialItem = FilledItem
    /\ ReturnsPromise(BackendOf(1))
    /\ nSets = 0
    /\ atoms[<<1, "count">>].trigger = "set"
    /\ atoms[<<1, "count">>].subscribed
    /\ atoms[<<1, "count">>].pushes = <<>>
    /\ atoms[<<1, "count">>].reads = 0
    /\ atoms[<<1, "name">>].trigger = "get"
    /\ atoms[<<1, "name">>].init = "done"
    /\ Len(atoms[<<1, "name">>].pushes) = 1
    /\ atoms[<<1, "name">>].reads = 1
    /\ getCalls = {CallOf(1)}

\* the invocations of the set callback that have ended
HasEnded(id) == sets[id].phase \in {"done", "rejected"}

\* C20. Write order with an immediate-read backend: when getItem returns at
\* once, a set callback ends (and writes) only when every set issued before
\* it has ended and none issued after it has, so the setItem calls occur in
\* the order of the sets; and when everything has settled the blob holds,
\* for the cell of the most recently issued set, the value of that set.
C20_WriteOrder ==
    /\ [][\A id \in SetIds :
             (Finishes(id) /\ ~ReturnsPromise(BackendOf(sets[id].inst)))
             => /\ \A e \in 1..(id - 1) : HasEnded(e)
                /\ \A l \in (id + 1)..MaxSets : ~HasEnded(l)
         ]_vars
    /\ []((/\ Quiescent
           /\ nSets > 0
           /\ ~ReturnsPromise(BackendOf(1)))
          => /\ last.id = nSets
             /\ last.node = sets[nSets].node
             /\ Persisted(1, last.node) = JsonImage(last.value))

\* two sets issued in one tick on an immediate-read backend: the second read
\* its snapshot before the first wrote, and the first has written first
C20_Witness ==
    /\ ~ReturnsPromise(BackendOf(1))
    /\ initialItem = ItemObject(NoFields)
    /\ sets[1].phase = "done"
    /\ last.id = 1
    /\ last.value = Num5
    /\ sets[2].phase = "cont"
    /\ sets[2].node = sets[1].node
    /\ sets[2].value = StrA
    /\ sets[2].snap.fields[sets[2].node] = NoEntry
    /\ Persisted(1, sets[1].node) = Num5
    /\ microtasks = <<SetJob(2)>>

\* with a pending-read backend the earlier of two sets on one cell is
\* written last: the later set has written its value, the earlier one has
\* read and is the one job left to run
C20_PendingReordered ==
    /\ ReturnsPromise(BackendOf(1))
    /\ initialItem = ItemObject(NoFields)
    /\ nSets = 2
    /\ sets[2].phase = "done"
    /\ last.id = 2
    /\ last.value = StrA
    /\ Persisted(1, sets[2].node) = StrA
    /\ sets[1].phase = "cont"
    /\ sets[1].node = sets[2].node
    /\ sets[1].value = Num5
    /\ microtasks = <<SetJob(1)>>

====
